---- MODULE Spec2Model ----
(***************************************************************************)
(* EventConcept of src/server/concepts/location.ts as a state machine.     *)
(*                                                                         *)
(* The state is the "events" document collection, the update commands      *)
(* that a mutator handed to the collection without awaiting them           *)
(* (this.events.updateOne(...) with no await, e.g. line 143), and the      *)
(* outcome of the call that returned last.  A mutator's read, its          *)
(* computation and the issue of its write are one step; the write reaches  *)
(* the collection in a later step (ApplyWrite), in any order.              *)
(*                                                                         *)
(* The collection's product of RSVP lists, tag lists and guard outcomes is  *)
(* too large to explore at once, so the operations are explored in         *)
(* several specifications over the same actions: SpecRsvp (create and the  *)
(* RSVP mutators), SpecGuards (the guards, awaited), SpecTags (update and  *)
(* the tag mutators), SpecCrud (create, update, delete), SpecMissing (the   *)
(* mutators on ids without a document), SpecRace (two writes in flight),   *)
(* SpecQuery (getEvents, getByHost) and SpecLocation (LocationConcept).    *)
(*                                                                         *)
(* JavaScript arrays are sequences; indexOf, includes, push and splice     *)
(* are operators with JavaScript's 0-based indices and -1 for "absent".    *)
(* Strings are sequences of characters, so String.prototype.includes is a  *)
(* substring test.                                                         *)
(***************************************************************************)
EXTENDS Integers, Sequences, FiniteSets, TLC

\* ------------------------------------------------------------- bounds
MaxUsers == 2
MaxEvents == 2
MaxLen == 2
MaxPending == 2
MaxResults == 3

Users == 1..MaxUsers
EventIds == 1..MaxEvents

\* Tag strings (topics, amenities, accommodations), as character sequences.
Music == <<"m", "u", "s", "i", "c">>
Food == <<"f", "o", "o", "d">>
Tags == { Music, Food }
Titles == { "party" }

\* ------------------------------------------------- JavaScript helpers
\* Array.prototype.indexOf on values compared with ===: first index, or -1.
IndexOf(arr, x) ==
  IF \E i \in 1..Len(arr) : arr[i] = x
    THEN (CHOOSE i \in 1..Len(arr) :
            arr[i] = x /\ \A j \in 1..(i - 1) : arr[j] # x) - 1
    ELSE -1

\* Array.prototype.includes on values compared with ===.
Includes(arr, x) == \E i \in 1..Len(arr) : arr[i] = x

\* String.prototype.includes: search occurs in str as a substring.
StringIncludes(str, search) ==
  \E i \in 0..(Len(str) - Len(search)) :
    SubSeq(str, i + 1, i + Len(search)) = search

\* Array.prototype.push(x).
Push(arr, x) == Append(arr, x)

\* Array.prototype.splice(start, 1): a negative start counts from the end
\* (-1 is the last element), a start past the end removes nothing.
Splice(arr, start) ==
  LET len == Len(arr)
      s == IF start < 0
             THEN (IF len + start < 0 THEN 0 ELSE len + start)
             ELSE (IF start > len THEN len ELSE start)
  IN IF s >= len THEN arr
     ELSE SubSeq(arr, 1, s) \o SubSeq(arr, s + 2, len)

\* -------------------------------------------------------------- state
VARIABLES
  events,    \* the collection: event id -> EventDoc, for the ids that exist
  nextId,    \* the id createOne allocates next (ids are never reused)
  pending,   \* update commands issued without await, not yet applied
  sameRef,   \* whether === holds between an ObjectId argument and an equal stored id
  last,      \* the call that returned last: [op, arg, id, res, floating]
  dateUpdated \* event id -> when the document was last written, as a rank

vars == <<events, nextId, pending, sameRef, last, dateUpdated>>

\* ---------------------------------------------------- the collection
\* readOne({ _id }): the document, or null when there is none.
Exists(id) == id \in DOMAIN events

\* updateOne({ _id }, update): the named fields are overwritten, the other
\* fields kept; a filter that matches no document changes nothing.
Merge(doc, update) ==
  [f \in DOMAIN doc |-> IF f \in DOMAIN update THEN update[f] ELSE doc[f]]

UpdateOne(coll, id, update) ==
  IF id \in DOMAIN coll
    THEN [coll EXCEPT ![id] = Merge(coll[id], update)]
    ELSE coll

\* createOne(fields): a document under a fresh id.
CreateOne(coll, id, doc) ==
  [i \in DOMAIN coll \cup {id} |-> IF i = id THEN doc ELSE coll[i]]

\* The collection stamps a document with the time of each createOne and
\* updateOne.  Only the order of the stamps is observed (by the sort of
\* readMany), so a stamp is kept as its rank among the documents that exist:
\* the document written now gets the highest rank.
Stamp(dates, id) ==
  LET others == DOMAIN dates \ {id}
  IN [i \in others \cup {id} |->
        IF i = id THEN Cardinality(others) + 1
        ELSE Cardinality({ j \in others : dates[j] < dates[i] }) + 1]

\* deleteOne({ _id }): the document is removed; a filter that matches no
\* document removes nothing.
DeleteOne(coll, id) == [i \in DOMAIN coll \ {id} |-> coll[i]]

Unstamp(dates, id) ==
  LET others == DOMAIN dates \ {id}
  IN [i \in others |-> Cardinality({ j \in others : dates[j] < dates[i] }) + 1]

\* A filter is a set of <<field, value>> pairs; a document matches it when it
\* holds each value in the named field.  The empty filter matches every
\* document.
Matches(doc, query) == \A c \in query : doc[c[1]] = c[2]

\* readMany(filter, { sort: { dateUpdated: dir } }): the ids of the documents
\* that match, sorted by their stamp, descending for dir = -1 and ascending
\* for dir = 1.
ReadMany(coll, dates, query, dir) ==
  LET S == { i \in DOMAIN coll : Matches(coll[i], query) }
      pos(i) == 1 + Cardinality({ j \in S : dir * dates[j] < dir * dates[i] })
  IN [k \in 1..Cardinality(S) |-> CHOOSE i \in S : pos(i) = k]

\* updateOne stamps the document it matched, and nothing when it matched none.
StampUpdate(dates, id) == IF id \in DOMAIN dates THEN Stamp(dates, id) ELSE dates

\* An updateOne whose promise nobody awaits: the command is on its way.
Issue(id, update) == pending \cup { [id |-> id, update |-> update] }

CanIssue == Cardinality(pending) < MaxPending

\* ------------------------------------------- ObjectId comparisons
\* interested.indexOf(person) / includes(person) compare ObjectIds with ===.
\* Two ObjectId objects are === only when they are the same object: a
\* document that readOne deserialised holds fresh objects (sameRef FALSE);
\* ids kept and passed as primitive strings compare by value (sameRef TRUE).
IndexOfId(arr, person) == IF sameRef THEN IndexOf(arr, person) ELSE -1

IncludesId(arr, person) == sameRef /\ Includes(arr, person)

\* ------------------------------------------------------------ guards
\* Each guard reads the event and throws; "ok" stands for a promise that
\* resolves.  isHost and isNotHost compare the ids' toString() values.
IsHostResult(host, id) ==
  IF ~Exists(id) THEN "NotFound"
  ELSE IF events[id].host # host THEN "NotAllowed"
  ELSE "ok"

IsNotHostResult(host, id) ==
  IF ~Exists(id) THEN "NotFound"
  ELSE IF events[id].host # host THEN "NotAllowed"
  ELSE "ok"

IsInterestedResult(person, id) ==
  IF ~Exists(id) THEN "NotFound"
  ELSE IF ~IncludesId(events[id].interested, person) THEN "NotFound"
  ELSE "ok"

IsNotInterestedResult(person, id) ==
  IF ~Exists(id) THEN "NotFound"
  ELSE IF IncludesId(events[id].interested, person) THEN "NotFound"
  ELSE "ok"

IsAttendingResult(person, id) ==
  IF ~Exists(id) THEN "NotFound"
  ELSE IF ~IncludesId(events[id].attending, person) THEN "NotFound"
  ELSE "ok"

IsNotAttendingResult(person, id) ==
  IF ~Exists(id) THEN "NotFound"
  ELSE IF IncludesId(events[id].attending, person) THEN "NotFound"
  ELSE "ok"

\* The errors of the guard promises a mutator started and did not await:
\* they reject on their own and never reach the mutator's caller.
Floating(results) == { r \in results : r # "ok" }

Returned(op, arg, id, res, floating) ==
  [op |-> op, arg |-> arg, id |-> id, res |-> res, floating |-> floating]

\* --------------------------------------------------------------- Init
Init ==
  /\ events = [i \in {} |-> 0]
  /\ nextId = 1
  /\ pending = {}
  /\ sameRef \in BOOLEAN
  /\ last = Returned("none", 0, 0, "ok", {})
  /\ dateUpdated = [i \in {} |-> 0]

\* ------------------------------------------------------------- create
\* A create that stores the capacity as the age requirement and the age
\* requirement as the capacity.
NewEventDocSwapped(host, title, description, location, ageReq, capacity) ==
  [host |-> host, title |-> title, description |-> description,
   location |-> location, ageReq |-> capacity, capacity |-> ageReq,
   topics |-> <<>>, amenities |-> <<>>, accommodations |-> <<>>,
   interested |-> <<>>, attending |-> <<>>]

\* The document create hands to createOne: the six scalars it was given and
\* five empty lists.
NewEventDoc(host, title, description, location, ageReq, capacity) ==
  [host |-> host, title |-> title, description |-> description,
   location |-> location, ageReq |-> ageReq, capacity |-> capacity,
   topics |-> <<>>, amenities |-> <<>>, accommodations |-> <<>>,
   interested |-> <<>>, attending |-> <<>>]

NewEvent(host, title) == NewEventDoc(host, title, "d", "l", 18, 50)

CreateEvent(host, title, description, location, ageReq, capacity) ==
  /\ nextId <= MaxEvents
  /\ events' = CreateOne(events, nextId,
                         NewEventDoc(host, title, description, location,
                                     ageReq, capacity))
  /\ nextId' = nextId + 1
  /\ dateUpdated' = Stamp(dateUpdated, nextId)
  /\ last' = Returned("create", host, nextId, "ok", {})
  /\ UNCHANGED <<pending, sameRef>>

\* create with the description, location, age requirement and capacity fixed.
Create(host, title) == CreateEvent(host, title, "d", "l", 18, 50)

\* ------------------------------------------------------------- delete
\* delete(_id): the deleteOne is awaited; its acknowledgement is not looked
\* at, and the success message is returned whether a document matched or not.
Delete(id) ==
  /\ events' = DeleteOne(events, id)
  /\ dateUpdated' = Unstamp(dateUpdated, id)
  /\ last' = Returned("delete", 0, id, "ok", {})
  /\ UNCHANGED <<nextId, pending, sameRef>>

\* ------------------------------------------------------ RSVP mutators
\* An indicateInterest that reads the event only once the writes in flight
\* for it are stored: it computes its lists from the event with such a write
\* applied.
InterestUpdateSerialised(event, person) ==
  LET inflight == { w \in pending : w.id \in DOMAIN events /\ events[w.id] = event }
      read == IF inflight = {} THEN event
              ELSE Merge(event, (CHOOSE w \in inflight : TRUE).update)
      interested == Push(read.interested, person)
      attend_idx == IndexOfId(read.attending, person)
      attending == IF attend_idx # -1 THEN Splice(read.attending, attend_idx)
                   ELSE read.attending
  IN [interested |-> interested, attending |-> attending]

\* The lists indicateInterest computes from the event it read.
InterestUpdate(event, person) ==
  LET interested == Push(event.interested, person)
      attend_idx == IndexOfId(event.attending, person)
      attending == IF attend_idx # -1 THEN Splice(event.attending, attend_idx)
                   ELSE event.attending
  IN [interested |-> interested, attending |-> attending]

IndicateInterest(person, id) ==
  LET floating == Floating({IsNotHostResult(person, id)}) IN
  IF ~Exists(id)
    THEN /\ last' = Returned("indicateInterest", person, id, "NotFound", floating)
         /\ UNCHANGED <<events, nextId, pending, sameRef, dateUpdated>>
    ELSE /\ Len(events[id].interested) < MaxLen
         /\ CanIssue
         /\ pending' = Issue(id, InterestUpdate(events[id], person))
         /\ last' = Returned("indicateInterest", person, id, "ok", floating)
         /\ UNCHANGED <<events, nextId, sameRef, dateUpdated>>

\* The lists removeInterest computes: the splice at interest_idx is not
\* guarded, so an index of -1 removes the last element.
RemoveInterestUpdate(event, person) ==
  LET interest_idx == IndexOfId(event.interested, person)
      interested == Splice(event.interested, interest_idx)
      attend_idx == IndexOfId(event.attending, person)
      attending == IF attend_idx # -1 THEN Splice(event.attending, attend_idx)
                   ELSE event.attending
  IN [interested |-> interested, attending |-> attending]

RemoveInterest(person, id) ==
  LET floating == Floating({IsNotHostResult(person, id),
                            IsInterestedResult(person, id)}) IN
  IF ~Exists(id)
    THEN /\ last' = Returned("removeInterest", person, id, "NotFound", floating)
         /\ UNCHANGED <<events, nextId, pending, sameRef, dateUpdated>>
    ELSE /\ CanIssue
         /\ pending' = Issue(id, RemoveInterestUpdate(events[id], person))
         /\ last' = Returned("removeInterest", person, id, "ok", floating)
         /\ UNCHANGED <<events, nextId, sameRef, dateUpdated>>

\* The lists indicateAttendance computes: the index found in interested is
\* spliced out of attending; interested is written back as read.
AttendanceUpdate(event, person) ==
  LET pushed == Push(event.attending, person)
      interest_idx == IndexOfId(event.interested, person)
      attending == IF interest_idx # -1 THEN Splice(pushed, interest_idx)
                   ELSE pushed
  IN [interested |-> event.interested, attending |-> attending]

IndicateAttendance(person, id) ==
  LET floating == Floating({IsNotHostResult(person, id)}) IN
  IF ~Exists(id)
    THEN /\ last' = Returned("indicateAttendance", person, id, "NotFound", floating)
         /\ UNCHANGED <<events, nextId, pending, sameRef, dateUpdated>>
    ELSE /\ Len(events[id].attending) < MaxLen
         /\ CanIssue
         /\ pending' = Issue(id, AttendanceUpdate(events[id], person))
         /\ last' = Returned("indicateAttendance", person, id, "ok", floating)
         /\ UNCHANGED <<events, nextId, sameRef, dateUpdated>>

\* The lists removeAttendance computes: attend_idx is computed and not used,
\* the person is pushed onto attending, and the index found in interested is
\* spliced out of attending.
RemoveAttendanceUpdate(event, person) ==
  LET attend_idx == IndexOfId(event.attending, person)
      pushed == Push(event.attending, person)
      interest_idx == IndexOfId(event.interested, person)
      attending == IF interest_idx # -1 THEN Splice(pushed, interest_idx)
                   ELSE pushed
  IN [interested |-> event.interested, attending |-> attending]

RemoveAttendance(person, id) ==
  LET floating == Floating({IsNotHostResult(person, id),
                            IsAttendingResult(person, id)}) IN
  IF ~Exists(id)
    THEN /\ last' = Returned("removeAttendance", person, id, "NotFound", floating)
         /\ UNCHANGED <<events, nextId, pending, sameRef, dateUpdated>>
    ELSE /\ Len(events[id].attending) < MaxLen
         /\ CanIssue
         /\ pending' = Issue(id, RemoveAttendanceUpdate(events[id], person))
         /\ last' = Returned("removeAttendance", person, id, "ok", floating)
         /\ UNCHANGED <<events, nextId, sameRef, dateUpdated>>

\* ------------------------------------------------------- tag mutators
\* A tag mutator that read the event: it throws NotAllowed when `rejects`,
\* and otherwise hands { field: list } to updateOne without awaiting it
\* (lists are kept to MaxLen entries).
\* A tag mutator without the check of the event it read: for an id with no
\* document it writes a list of the one tag and reports success.
TagCallUnchecked(op, id, tag, rejects, field, list) ==
  IF ~Exists(id) \/ ~rejects
    THEN /\ Len(list) <= MaxLen
         /\ CanIssue
         /\ pending' = Issue(id, (field :> IF Exists(id) THEN list ELSE <<tag>>))
         /\ last' = Returned(op, tag, id, "ok", {})
         /\ UNCHANGED <<events, nextId, sameRef, dateUpdated>>
    ELSE /\ last' = Returned(op, tag, id, "NotAllowed", {})
         /\ UNCHANGED <<events, nextId, pending, sameRef, dateUpdated>>

TagCall(op, id, tag, rejects, field, list) ==
  IF ~Exists(id)
    THEN /\ last' = Returned(op, tag, id, "NotFound", {})
         /\ UNCHANGED <<events, nextId, pending, sameRef, dateUpdated>>
    ELSE IF rejects
      THEN /\ last' = Returned(op, tag, id, "NotAllowed", {})
           /\ UNCHANGED <<events, nextId, pending, sameRef, dateUpdated>>
      ELSE /\ Len(list) <= MaxLen
           /\ CanIssue
           /\ pending' = Issue(id, (field :> list))
           /\ last' = Returned(op, tag, id, "ok", {})
           /\ UNCHANGED <<events, nextId, sameRef, dateUpdated>>

\* addTopic tests topic.includes(topic): the string against itself.
AddTopicRejects(topics, topic) == StringIncludes(topic, topic)

AddTopic(id, topic) ==
  TagCall("addTopic", id, topic,
          Exists(id) /\ AddTopicRejects(events[id].topics, topic),
          "topics", IF Exists(id) THEN Push(events[id].topics, topic) ELSE <<>>)

\* removeTopic tests !topic.includes(topic), then splices at indexOf's
\* result without testing it for -1.
RemoveTopicRejects(topics, topic) == ~StringIncludes(topic, topic)

RemoveTopic(id, topic) ==
  TagCall("removeTopic", id, topic,
          Exists(id) /\ RemoveTopicRejects(events[id].topics, topic),
          "topics",
          IF Exists(id)
            THEN Splice(events[id].topics, IndexOf(events[id].topics, topic))
            ELSE <<>>)

\* A mutation of AddAmenityRejects: the test negated.
AddAmenityRejectsNegated(amenities, amenity) == ~Includes(amenities, amenity)

\* addAmenity tests amenities.includes(amenity): the list.
AddAmenityRejects(amenities, amenity) == Includes(amenities, amenity)

AddAmenity(id, amenity) ==
  TagCall("addAmenity", id, amenity,
          Exists(id) /\ AddAmenityRejects(events[id].amenities, amenity),
          "amenities",
          IF Exists(id) THEN Push(events[id].amenities, amenity) ELSE <<>>)

\* removeAmenity tests !amenity.includes(amenity): the string against itself.
RemoveAmenityRejects(amenities, amenity) == ~StringIncludes(amenity, amenity)

RemoveAmenity(id, amenity) ==
  TagCall("removeAmenity", id, amenity,
          Exists(id) /\ RemoveAmenityRejects(events[id].amenities, amenity),
          "amenities",
          IF Exists(id)
            THEN Splice(events[id].amenities,
                        IndexOf(events[id].amenities, amenity))
            ELSE <<>>)

\* addAccommodation tests accommodations.includes(accommodation): the list.
AddAccommodationRejects(accommodations, accommodation) ==
  Includes(accommodations, accommodation)

AddAccommodation(id, accommodation) ==
  TagCall("addAccommodation", id, accommodation,
          Exists(id)
            /\ AddAccommodationRejects(events[id].accommodations, accommodation),
          "accommodations",
          IF Exists(id) THEN Push(events[id].accommodations, accommodation)
          ELSE <<>>)

\* removeAccommodation tests !accommodation.includes(accommodation).
RemoveAccommodationRejects(accommodations, accommodation) ==
  ~StringIncludes(accommodation, accommodation)

RemoveAccommodation(id, accommodation) ==
  TagCall("removeAccommodation", id, accommodation,
          Exists(id)
            /\ RemoveAccommodationRejects(events[id].accommodations, accommodation),
          "accommodations",
          IF Exists(id)
            THEN Splice(events[id].accommodations,
                        IndexOf(events[id].accommodations, accommodation))
            ELSE <<>>)

\* ------------------------------------------------------------- update
\* A sanitizeUpdate that looks at a partial only when host is its one key.
SanitizeUpdateThrowsOnHostAlone(update) == DOMAIN update = {"host"}

\* sanitizeUpdate throws for a partial with the key "host" and for no other.
SanitizeUpdateThrows(update) == "host" \in DOMAIN update

\* update(_id, partial): the updateOne is awaited, so it is applied when
\* update returns; a partial may carry any other field of the document.
Update(id, update) ==
  IF SanitizeUpdateThrows(update)
    THEN /\ last' = Returned("update", DOMAIN update, id, "NotAllowed", {})
         /\ UNCHANGED <<events, nextId, pending, sameRef, dateUpdated>>
    ELSE /\ events' = UpdateOne(events, id, update)
         /\ dateUpdated' = StampUpdate(dateUpdated, id)
         /\ last' = Returned("update", DOMAIN update, id, "ok", {})
         /\ UNCHANGED <<nextId, pending, sameRef>>

\* The partials of the tag fields that update is called with here.
TagPartials ==
  { ("topics" :> <<Music>>), ("amenities" :> <<Food, Food>>) }

\* The partials update is called with beside create and delete: the host
\* alone, the host together with another field, and another field alone.
CrudPartials ==
  { ("host" :> u) : u \in Users }
    \cup { ("host" :> u) @@ ("title" :> "picnic") : u \in Users }
    \cup { ("title" :> "picnic") }

\* The age requirements create is called with.
Ages == { 0, 18 }

\* ------------------------------------------------------------ queries
\* A getEvents that asks readMany for the ascending order.
GetEventsResultAscending(query) == ReadMany(events, dateUpdated, query, 1)

\* getEvents(query): readMany with the caller's filter and
\* { sort: { dateUpdated: -1 } }.
GetEventsResult(query) == ReadMany(events, dateUpdated, query, -1)

\* A query returns its result and writes nothing.
Query(op, query, result) ==
  /\ last' = Returned(op, query, 0, result, {})
  /\ UNCHANGED <<events, nextId, pending, sameRef, dateUpdated>>

GetEvents(query) == Query("getEvents", query, GetEventsResult(query))

\* getByHost(host) is getEvents({ host }).
GetByHost(host) ==
  Query("getByHost", {<<"host", host>>}, GetEventsResult({<<"host", host>>}))

\* The filters getEvents is called with: none, and a title.
Filters == { {}, {<<"title", "picnic">>} }

\* -------------------------------------------------- LocationConcept
\* encodeURIComponent on the characters used here: a space becomes %20,
\* letters and digits stay.
RECURSIVE EncodeURIComponent(_)
EncodeURIComponent(str) ==
  IF str = <<>> THEN <<>>
  ELSE (IF Head(str) = " " THEN <<"%", "2", "0">> ELSE <<Head(str)>>)
         \o EncodeURIComponent(Tail(str))

\* The geocoding URL of an address: the endpoint, the encoded address and the
\* key of the environment.
GeocodingUrl(address) ==
  [endpoint |-> "https://maps.googleapis.com/maps/api/geocode/json",
   address |-> EncodeURIComponent(address),
   key |-> "GOOGLE_API_KEY"]

\* The addresses asked for, and the response bodies the provider may send:
\* up to MaxResults results, each with a geometry.location.
Addresses == { <<"1", " ", "a", "v", "e">>, <<"x">> }

Locations == { [lat |-> a, lng |-> b] : a \in {40, 42}, b \in {71, 74} }

ResultLists ==
  UNION { [1..n -> { [geometry |-> [location |-> l]] : l \in Locations }]
          : n \in 0..MaxResults }

Bodies == { [results |-> r] : r \in ResultLists }

\* A getAddressLocation that returns the location of the last result.
ResolvedLocationOfLast(body) ==
  IF Len(body.results) = 0 THEN "NotFound"
  ELSE body.results[Len(body.results)].geometry.location

\* What getAddressLocation makes of the response body: NotFoundError for
\* an empty results list, else results[0].geometry.location.
ResolvedLocation(body) ==
  IF Len(body.results) = 0 THEN "NotFound"
  ELSE body.results[1].geometry.location

\* getAddressLocation(address): one fetch of the geocoding URL; body is what
\* the provider answers to it.  last.arg records the exchange.
GetAddressLocation(address, body) ==
  /\ last' = Returned("getAddressLocation",
                      [address |-> address,
                       requests |-> <<GeocodingUrl(address)>>,
                       response |-> body],
                      0, ResolvedLocation(body), {})
  /\ UNCHANGED <<events, nextId, pending, sameRef, dateUpdated>>

\* ----------------------------------------------- the guards, awaited
\* A caller that awaits a guard gets its result; nothing is written.
Guard(op, arg, id, res) ==
  /\ last' = Returned(op, arg, id, res, {})
  /\ UNCHANGED <<events, nextId, pending, sameRef, dateUpdated>>

IsHost(host, id) == Guard("isHost", host, id, IsHostResult(host, id))

IsNotHost(host, id) == Guard("isNotHost", host, id, IsNotHostResult(host, id))

IsInterested(person, id) ==
  Guard("isInterested", person, id, IsInterestedResult(person, id))

IsNotInterested(person, id) ==
  Guard("isNotInterested", person, id, IsNotInterestedResult(person, id))

IsAttending(person, id) ==
  Guard("isAttending", person, id, IsAttendingResult(person, id))

IsNotAttending(person, id) ==
  Guard("isNotAttending", person, id, IsNotAttendingResult(person, id))

\* ---------------------------------------------------------- the store
ApplyWrite(w) ==
  /\ w \in pending
  /\ events' = UpdateOne(events, w.id, w.update)
  /\ dateUpdated' = StampUpdate(dateUpdated, w.id)
  /\ pending' = pending \ {w}
  /\ UNCHANGED <<nextId, sameRef, last>>

\* A call made while no other write is in flight than, at most, its own.
OneInFlight(call) == call /\ (pending' # pending => pending = {})

\* create, the RSVP mutators and the store.
NextRsvp ==
  \/ \E h \in Users, t \in Titles : Create(h, t)
  \/ \E p \in Users, id \in EventIds : OneInFlight(IndicateInterest(p, id))
  \/ \E p \in Users, id \in EventIds : OneInFlight(RemoveInterest(p, id))
  \/ \E p \in Users, id \in EventIds : OneInFlight(IndicateAttendance(p, id))
  \/ \E p \in Users, id \in EventIds : OneInFlight(RemoveAttendance(p, id))
  \/ \E w \in pending : ApplyWrite(w)

SpecRsvp == Init /\ [][NextRsvp]_vars

\* One event (calls name it, or an id that has no event), the guards awaited
\* by their caller, two mutators that fill the lists the guards read, and the
\* store.
NextGuards ==
  \/ \E h \in Users, t \in Titles : nextId = 1 /\ Create(h, t)
  \/ \E p \in Users, id \in EventIds : IsHost(p, id)
  \/ \E p \in Users, id \in EventIds : IsNotHost(p, id)
  \/ \E p \in Users, id \in EventIds : IsInterested(p, id)
  \/ \E p \in Users, id \in EventIds : IsNotInterested(p, id)
  \/ \E p \in Users, id \in EventIds : IsAttending(p, id)
  \/ \E p \in Users, id \in EventIds : IsNotAttending(p, id)
  \/ \E p \in Users, id \in EventIds : OneInFlight(IndicateInterest(p, id))
  \/ \E p \in Users, id \in EventIds : OneInFlight(IndicateAttendance(p, id))
  \/ \E w \in pending : ApplyWrite(w)

SpecGuards == Init /\ [][NextGuards]_vars

\* One event (calls name it, or an id that has no event), update of the tag
\* fields, the tag mutators and the store.  The tag mutators compare strings,
\* so sameRef plays no part.
InitTags == Init /\ sameRef = FALSE

NextTags ==
  \/ \E t \in Titles : nextId = 1 /\ Create(1, t)
  \/ \E id \in EventIds, u \in TagPartials : Update(id, u)
  \/ \E id \in EventIds, t \in Tags : OneInFlight(AddTopic(id, t))
  \/ \E id \in EventIds, t \in Tags : OneInFlight(RemoveTopic(id, t))
  \/ \E id \in EventIds, t \in Tags : OneInFlight(AddAmenity(id, t))
  \/ \E id \in EventIds, t \in Tags : OneInFlight(RemoveAmenity(id, t))
  \/ \E id \in EventIds, t \in Tags : OneInFlight(AddAccommodation(id, t))
  \/ \E id \in EventIds, t \in Tags : OneInFlight(RemoveAccommodation(id, t))
  \/ \E w \in pending : ApplyWrite(w)

SpecTags == InitTags /\ [][NextTags]_vars

\* create with its scalars, update, delete, one RSVP mutator that fills a list
\* and leaves its write in flight, and the store.
NextCrud ==
  \/ \E h \in Users, t \in Titles, a \in Ages : CreateEvent(h, t, "d", "l", a, 50)
  \/ \E id \in EventIds, u \in CrudPartials : Update(id, u)
  \/ \E id \in EventIds : Delete(id)
  \/ \E id \in EventIds : OneInFlight(IndicateInterest(1, id))
  \/ \E w \in pending : ApplyWrite(w)

SpecCrud == Init /\ [][NextCrud]_vars

\* One event, created and deleted, and the ten mutators called for user 1 and
\* the tag "music" with the id of that event and with an id that never had
\* one; the store.
NextMissing ==
  \/ \E h \in Users, t \in Titles : nextId = 1 /\ Create(h, t)
  \/ \E id \in EventIds : Delete(id)
  \/ \E id \in EventIds : OneInFlight(IndicateInterest(1, id))
  \/ \E id \in EventIds : OneInFlight(RemoveInterest(1, id))
  \/ \E id \in EventIds : OneInFlight(IndicateAttendance(1, id))
  \/ \E id \in EventIds : OneInFlight(RemoveAttendance(1, id))
  \/ \E id \in EventIds : OneInFlight(AddTopic(id, Music))
  \/ \E id \in EventIds : OneInFlight(RemoveTopic(id, Music))
  \/ \E id \in EventIds : OneInFlight(AddAmenity(id, Music))
  \/ \E id \in EventIds : OneInFlight(RemoveAmenity(id, Music))
  \/ \E id \in EventIds : OneInFlight(AddAccommodation(id, Music))
  \/ \E id \in EventIds : OneInFlight(RemoveAccommodation(id, Music))
  \/ \E w \in pending : ApplyWrite(w)

SpecMissing == Init /\ [][NextMissing]_vars

\* One event and two callers that indicate interest and attendance without
\* waiting for each other: up to MaxPending writes are in flight, and the
\* store applies them in any order.
NextRace ==
  \/ \E h \in Users, t \in Titles : nextId = 1 /\ Create(h, t)
  \/ \E p \in Users, id \in EventIds : IndicateInterest(p, id)
  \/ \E p \in Users, id \in EventIds : IndicateAttendance(p, id)
  \/ \E w \in pending : ApplyWrite(w)

SpecRace == Init /\ [][NextRace]_vars

\* Two events that are created, retitled, deleted and given an interested
\* user, and the two queries.
NextQuery ==
  \/ \E h \in Users, t \in Titles : Create(h, t)
  \/ \E id \in EventIds : Update(id, ("title" :> "picnic"))
  \/ \E id \in EventIds : Delete(id)
  \/ \E id \in EventIds : OneInFlight(IndicateInterest(1, id))
  \/ \E w \in pending : ApplyWrite(w)
  \/ \E q \in Filters : GetEvents(q)
  \/ \E h \in Users : GetByHost(h)

SpecQuery == Init /\ [][NextQuery]_vars

\* LocationConcept has one operation and no state of its own.
NextLocation ==
  \E a \in Addresses, b \in Bodies : GetAddressLocation(a, b)

\* LocationConcept compares no ObjectIds.
InitLocation == Init /\ sameRef = FALSE

SpecLocation == InitLocation /\ [][NextLocation]_vars

\* ============================================================= claims
\* What the store holds for event id once the update of write w is applied.
After(id, w) == Merge(events[id], w.update)

\* The writes a step issued.
Issued == pending' \ pending

\* A call that threw before it wrote: nothing issued, nothing stored.
NothingWritten == pending' = pending /\ events' = events

\* How often x occurs in list.
Count(list, x) == Cardinality({ i \in 1..Len(list) : list[i] = x })

\* C1: no user identity is in both the interested list and the attending
\* list of the same event, in any state that create and the four RSVP
\* mutators reach.
C1_InterestedAttendingDisjoint ==
  \A id \in DOMAIN events : \A u \in Users :
    ~(Includes(events[id].interested, u) /\ Includes(events[id].attending, u))

\* C2: for a non-host p, indicateInterest(p, e) followed (its write stored)
\* by indicateAttendance(p, e) leaves p in attending and not in interested;
\* from a fresh event, where the first call left interested = [p] and
\* attending = [], the result is interested = [] and attending = [p].
C2_InterestThenAttendance ==
  [][\A p \in Users, id \in EventIds :
       ( /\ Exists(id)
         /\ events[id].host # p
         /\ last.op = "indicateInterest" /\ last.res = "ok"
         /\ last.arg = p /\ last.id = id
         /\ pending = {}
         /\ IndicateAttendance(p, id) )
       => /\ last'.res = "ok"
          /\ \A w \in Issued :
               /\ Includes(After(id, w).attending, p)
               /\ ~Includes(After(id, w).interested, p)
               /\ (events[id].interested = <<p>> /\ events[id].attending = <<>>)
                    => /\ After(id, w).interested = <<>>
                       /\ After(id, w).attending = <<p>>
    ]_vars

\* C3: the host of an event is in neither the interested list nor the
\* attending list of that event, in every reachable state.
C3_HostInNeitherList ==
  \A id \in DOMAIN events :
    /\ ~Includes(events[id].interested, events[id].host)
    /\ ~Includes(events[id].attending, events[id].host)

\* C4: each RSVP mutator called with the event's host as the person ends
\* with NotAllowed delivered to the caller and writes nothing.
C4_HostIsRejected ==
  [][\A p \in Users, id \in EventIds :
       ( /\ Exists(id)
         /\ events[id].host = p
         /\ \/ IndicateInterest(p, id)
            \/ RemoveInterest(p, id)
            \/ IndicateAttendance(p, id)
            \/ RemoveAttendance(p, id) )
       => (last'.res = "NotAllowed" /\ NothingWritten)
    ]_vars

\* C5: the awaited not-host guard fails with NotFound on an id with no
\* event, with NotAllowed exactly when the user is the event's host, and
\* completes without error for every other user.
C5_NotHostGuard ==
  [][\A u \in Users, id \in EventIds :
       IsNotHost(u, id)
       => last'.res = (IF ~Exists(id) THEN "NotFound"
                       ELSE IF events[id].host = u THEN "NotAllowed"
                       ELSE "ok")
    ]_vars

\* C6: removeInterest(p, e) for a person p who is not in e's interested
\* list fails with NotFound delivered to the caller and writes nothing.
C6_RemoveInterestOfAbsent ==
  [][\A p \in Users, id \in EventIds :
       ( /\ Exists(id)
         /\ ~Includes(events[id].interested, p)
         /\ RemoveInterest(p, id) )
       => (last'.res = "NotFound" /\ NothingWritten)
    ]_vars

\* C7: removeAttendance(p, e) for a non-host p in e's attending list
\* succeeds and writes lists with p in neither; for a p not in attending it
\* fails with NotFound and writes nothing.
C7_RemoveAttendance ==
  [][\A p \in Users, id \in EventIds :
       ( /\ Exists(id)
         /\ events[id].host # p
         /\ RemoveAttendance(p, id) )
       => IF Includes(events[id].attending, p)
            THEN /\ last'.res = "ok"
                 /\ \A w \in Issued :
                      /\ ~Includes(After(id, w).attending, p)
                      /\ ~Includes(After(id, w).interested, p)
            ELSE last'.res = "NotFound" /\ NothingWritten
    ]_vars

\* C8 as stated: in every reachable state each of topics, amenities and
\* accommodations of an event contains no tag more than once.
C8_NoDuplicateTags ==
  \A id \in DOMAIN events : \A t \in Tags :
    /\ Count(events[id].topics, t) <= 1
    /\ Count(events[id].amenities, t) <= 1
    /\ Count(events[id].accommodations, t) <= 1

\* An add call (the step `call`, which records `op`) of `tag` on `field`: a
\* tag the list holds is rejected with
\* NotAllowed and nothing is written; a list that is written holds the tag
\* once and every other tag as often as the list read.
AddIsGuarded(op, call, id, field, tag) ==
  (last'.op = op /\ Exists(id) /\ call) =>
    IF Includes(events[id][field], tag)
      THEN last'.res = "NotAllowed" /\ NothingWritten
      ELSE \A w \in Issued :
             /\ DOMAIN w.update = {field}
             /\ Count(w.update[field], tag) = 1
             /\ \A o \in Tags \ {tag} :
                  Count(w.update[field], o) = Count(events[id][field], o)

\* C8 (amended): addTopic, addAmenity and addAccommodation reject with
\* NotAllowed a tag that is already in the list they read, and no add call
\* writes a list that holds the added tag twice or changes how often
\* another tag occurs.
C8_AddNeverDuplicates ==
  [][\A id \in EventIds, t \in Tags :
       /\ AddIsGuarded("addTopic", AddTopic(id, t), id, "topics", t)
       /\ AddIsGuarded("addAmenity", AddAmenity(id, t), id, "amenities", t)
       /\ AddIsGuarded("addAccommodation", AddAccommodation(id, t), id, "accommodations", t)
    ]_vars

\* C8 witness: addAmenity was called with a tag the list holds, and rejected.
C8_Witness ==
  /\ last.op = "addAmenity" /\ last.res = "NotAllowed"
  /\ Exists(last.id)
  /\ Includes(events[last.id].amenities, last.arg)

\* An add call of `tag` on `field` whose list does not hold the tag
\* succeeds and writes a list that holds it.
AddIsAccepted(op, call, id, field, tag) ==
  (last'.op = op /\ Exists(id) /\ ~Includes(events[id][field], tag) /\ call) =>
    /\ last'.res = "ok"
    /\ \E w \in pending' :
         /\ w.id = id
         /\ field \in DOMAIN w.update
         /\ Includes(w.update[field], tag)

\* C9: addTopic(e, t) on an existing event whose topics do not contain t
\* succeeds and afterwards topics contains t; likewise addAmenity and
\* addAccommodation.
C9_AddOfAbsentTagAccepted ==
  [][\A id \in EventIds, t \in Tags :
       /\ AddIsAccepted("addTopic", AddTopic(id, t), id, "topics", t)
       /\ AddIsAccepted("addAmenity", AddAmenity(id, t), id, "amenities", t)
       /\ AddIsAccepted("addAccommodation", AddAccommodation(id, t), id, "accommodations", t)
    ]_vars

\* A remove call of `tag` on `field`: an absent tag is rejected with
\* NotAllowed and nothing is written; a present tag is removed once and no
\* other tag is.
RemoveIsGuarded(op, call, id, field, tag) ==
  (last'.op = op /\ Exists(id) /\ call) =>
    IF ~Includes(events[id][field], tag)
      THEN last'.res = "NotAllowed" /\ NothingWritten
      ELSE /\ last'.res = "ok"
           /\ \A w \in Issued :
                /\ DOMAIN w.update = {field}
                /\ Count(w.update[field], tag) = Count(events[id][field], tag) - 1
                /\ \A o \in Tags \ {tag} :
                     Count(w.update[field], o) = Count(events[id][field], o)

\* C10: removeTopic, removeAmenity and removeAccommodation called with a
\* tag that is absent from the list fail with NotAllowed and leave the list
\* unchanged; called with a present tag they remove exactly that tag.
C10_RemoveOfAbsentTagRejected ==
  [][\A id \in EventIds, t \in Tags :
       /\ RemoveIsGuarded("removeTopic", RemoveTopic(id, t), id, "topics", t)
       /\ RemoveIsGuarded("removeAmenity", RemoveAmenity(id, t), id, "amenities", t)
       /\ RemoveIsGuarded("removeAccommodation", RemoveAccommodation(id, t), id, "accommodations", t)
    ]_vars

\* C11: update with a partial that names host, alone or beside other fields,
\* is rejected with NotAllowed and writes nothing, and no step changes the
\* host of an event that exists before and after it.
C11_HostNeverChanges ==
  [][ /\ \A id \in EventIds, u \in CrudPartials :
          (last'.op = "update" /\ "host" \in DOMAIN u /\ Update(id, u))
            => (last'.res = "NotAllowed" /\ NothingWritten)
      /\ \A id \in DOMAIN events \cap DOMAIN events' :
          events'[id].host = events[id].host ]_vars

\* update of an event that exists, with host and title in the partial from a
\* user who is not the host, was rejected and the title is as created.
C11_Witness ==
  /\ last.op = "update" /\ last.res = "NotAllowed"
  /\ last.arg = {"host", "title"}
  /\ Exists(last.id)
  /\ events[last.id].title = "party"
  /\ pending # {}

\* C12: update (with a partial that sanitizeUpdate lets through) and delete,
\* called with an id that has no document, fail with NotFound.
C12_MissingIdIsNotFound ==
  [][ \A id \in EventIds :
        /\ (last'.op = "delete" /\ ~Exists(id) /\ Delete(id))
             => last'.res = "NotFound"
        /\ \A u \in CrudPartials :
             (last'.op = "update" /\ ~Exists(id) /\ ~SanitizeUpdateThrows(u)
                /\ Update(id, u))
               => last'.res = "NotFound" ]_vars

\* C13: right after create the new event holds the six scalars create was
\* given and five empty lists, it is the one document added, and every
\* document that existed is as it was.
C13_CreateAddsOneFreshEvent ==
  [][ \A h \in Users, t \in Titles, a \in Ages :
        (last'.op = "create" /\ CreateEvent(h, t, "d", "l", a, 50))
          => /\ ~Exists(nextId)
             /\ DOMAIN events' = DOMAIN events \cup {nextId}
             /\ \A i \in DOMAIN events : events'[i] = events[i]
             /\ LET e == events'[nextId]
                IN /\ e.host = h /\ e.title = t /\ e.description = "d"
                   /\ e.location = "l" /\ e.ageReq = a /\ e.capacity = 50
                   /\ e.topics = <<>> /\ e.amenities = <<>>
                   /\ e.accommodations = <<>>
                   /\ e.interested = <<>> /\ e.attending = <<>> ]_vars

\* A second event was just created beside a first one that has an interested
\* user and a write in flight.
C13_Witness ==
  /\ last.op = "create" /\ last.id = 2
  /\ Exists(1) /\ Exists(2)
  /\ events[1].interested # <<>>
  /\ events[1].ageReq = 18 /\ events[2].ageReq = 0
  /\ events[2].interested = <<>>
  /\ pending # {}

\* The call of one of the ten mutators for user 1 or the tag "music".
MutatorCall(id) ==
  \/ IndicateInterest(1, id) \/ RemoveInterest(1, id)
  \/ IndicateAttendance(1, id) \/ RemoveAttendance(1, id)
  \/ AddTopic(id, Music) \/ RemoveTopic(id, Music)
  \/ AddAmenity(id, Music) \/ RemoveAmenity(id, Music)
  \/ AddAccommodation(id, Music) \/ RemoveAccommodation(id, Music)

\* C14: each RSVP mutator and each tag mutator, called with an id that has no
\* document (never created, or deleted), fails with NotFound, issues no write
\* and changes no document; the id has no document afterwards either.
C14_MutatorOfMissingEvent ==
  [][ \A id \in EventIds :
        (last'.id = id /\ ~Exists(id) /\ MutatorCall(id))
          => /\ last'.res = "NotFound"
             /\ NothingWritten
             /\ id \notin DOMAIN events' ]_vars

\* A tag mutator was called with the id of the event that was created and
\* then deleted, while a write for that event was still in flight.
C14_Witness ==
  /\ last.op = "addAmenity" /\ last.id = 1 /\ last.res = "NotFound"
  /\ nextId = 2 /\ ~Exists(1)
  /\ \E w \in pending : w.id = 1

\* C15: an RSVP mutator called while another write for the same event is in
\* flight reports success, and its write carries both lists as computed from
\* the stored (pre-mutation) event alone, with no other person's change in
\* it; the store sets both lists to what a write carries.  So of two such
\* writes the one applied later removes the change of the other.
C15_StaleWriteOverwrites ==
  [][ /\ \A p \in Users, id \in EventIds :
          (/\ last'.arg = p /\ last'.id = id /\ Exists(id)
           /\ \E w \in pending : w.id = id
           /\ (IndicateInterest(p, id) \/ IndicateAttendance(p, id)))
            => /\ last'.res = "ok"
               /\ \A w \in Issued :
                    /\ w.id = id
                    /\ DOMAIN w.update = {"interested", "attending"}
                    /\ \A q \in Users \ {p} :
                         /\ Count(w.update.interested, q)
                              <= Count(events[id].interested, q)
                         /\ Count(w.update.attending, q)
                              <= Count(events[id].attending, q)
      /\ \A w \in pending :
          (Exists(w.id) /\ ApplyWrite(w))
            => /\ events'[w.id].interested = w.update.interested
               /\ events'[w.id].attending = w.update.attending ]_vars

\* indicateAttendance of user 2 was the last call and reported success, every
\* write is stored, and the event holds the interest of user 1 and nobody's
\* attendance: the write of user 2 was overwritten.
C15_Witness ==
  /\ last.op = "indicateAttendance" /\ last.arg = 2 /\ last.res = "ok"
  /\ pending = {}
  /\ Exists(last.id)
  /\ events[last.id].interested = <<1>>
  /\ events[last.id].attending = <<>>

\* C16: no event holds a user identity more than once in its interested list
\* or more than once in its attending list.
C16_NoDuplicateIdentity ==
  \A id \in DOMAIN events : \A u \in Users :
    /\ Count(events[id].interested, u) <= 1
    /\ Count(events[id].attending, u) <= 1

\* What C17 says of the result r of a query with filter q: it lists exactly
\* the events that match q, each once, the more recently written first.
ExactAndNewestFirst(r, q) ==
  /\ \A i \in 1..Len(r) : r[i] \in DOMAIN events /\ Matches(events[r[i]], q)
  /\ \A id \in DOMAIN events : Matches(events[id], q) => Count(r, id) = 1
  /\ \A i \in 1..Len(r) : Count(r, r[i]) = 1
  /\ \A i \in 1..Len(r) : \A j \in (i + 1)..Len(r) :
       dateUpdated[r[i]] > dateUpdated[r[j]]

\* C17: getEvents(q) and getByHost(h) return exactly the events that match
\* the filter (for getByHost, the events whose host is h), ordered by
\* descending update stamp, and write nothing; the event a write was stored
\* for last carries the highest stamp, so it comes first.
C17_QueryExactAndNewestFirst ==
  [][ /\ \A q \in Filters :
          (last'.op = "getEvents" /\ GetEvents(q))
            => (ExactAndNewestFirst(last'.res, q) /\ NothingWritten)
      /\ \A h \in Users :
          (last'.op = "getByHost" /\ GetByHost(h))
            => /\ ExactAndNewestFirst(last'.res, {<<"host", h>>})
               /\ \A i \in 1..Len(last'.res) : events[last'.res[i]].host = h
               /\ NothingWritten
      /\ \A w \in pending :
          (Exists(w.id) /\ ApplyWrite(w))
            => \A j \in DOMAIN events \ {w.id} :
                 dateUpdated'[w.id] > dateUpdated'[j] ]_vars

\* getByHost returned both events of host 1, the one created first in front:
\* its interested list was written after the second event was created.
C17_Witness ==
  /\ last.op = "getByHost" /\ last.arg = {<<"host", 1>>}
  /\ last.res = <<1, 2>>
  /\ events[1].interested = <<1>>
  /\ events[2].interested = <<>>

\* C18: a call of getAddressLocation sends one request, for the address it
\* was given, also when the call before it asked for the same address; it
\* fails with NotFound when the response has no results and otherwise
\* returns the location of the first result, whatever the later results are.
C18_OneRequestFirstResult ==
  [][ (/\ last'.op = "getAddressLocation"
       /\ last'.arg.address \in Addresses /\ last'.arg.response \in Bodies
       /\ GetAddressLocation(last'.arg.address, last'.arg.response))
        => LET a == last'.arg.address
               b == last'.arg.response
           IN /\ Len(last'.arg.requests) = 1
              /\ last'.arg.requests[1].address = EncodeURIComponent(a)
              /\ IF b.results = <<>>
                   THEN last'.res = "NotFound"
                   ELSE last'.res = b.results[1].geometry.location
              /\ NothingWritten ]_vars

\* The provider sent two results with different locations and the call
\* returned the first.
C18_Witness ==
  /\ last.op = "getAddressLocation"
  /\ Len(last.arg.response.results) = 2
  /\ last.arg.response.results[1] # last.arg.response.results[2]
  /\ last.res = last.arg.response.results[1].geometry.location
  /\ Len(last.arg.requests) = 1

\* The call of one of the four RSVP mutators for person p on event id.
RsvpCall(p, id) ==
  \/ IndicateInterest(p, id) \/ RemoveInterest(p, id)
  \/ IndicateAttendance(p, id) \/ RemoveAttendance(p, id)

\* C19: the write of an RSVP mutator called for person p on event id is for
\* that event, names the interested and attending lists only, and leaves
\* every other person as often in each of the two lists as the event read
\* held them.
C19_RsvpFrame ==
  [][ \A p \in Users, id \in EventIds :
        (last'.arg = p /\ last'.id = id /\ Exists(id) /\ RsvpCall(p, id))
          => /\ events' = events
             /\ \A w \in Issued :
                  /\ w.id = id
                  /\ DOMAIN w.update = {"interested", "attending"}
                  /\ \A q \in Users \ {p} :
                       /\ Count(w.update.interested, q)
                            = Count(events[id].interested, q)
                       /\ Count(w.update.attending, q)
                            = Count(events[id].attending, q) ]_vars

\* C20: when an RSVP mutator returns success no write is left in flight: the
\* store holds the lists the call computed.
C20_WriteAppliedOnReturn ==
  [][ \A p \in Users, id \in EventIds :
        (last'.arg = p /\ last'.id = id /\ RsvpCall(p, id) /\ last'.res = "ok")
          => /\ Issued = {}
             /\ pending' = {} ]_vars
====
